---- MODULE Spec2Model ----
\* Model of internal/aghos/permission_windows.go (with permission.go): the
\* translation between UNIX permission bits and Windows access masks, and the
\* Chmod / Mkdir / MkdirAll / WriteFile / Stat operations built on it.
\*
\* A uint32 (fs.FileMode, windows.ACCESS_MASK) is modelled as the set of its
\* set bit positions, a subset of 0..31: AND is intersection, OR is union and
\* a shift moves every position and drops what leaves 0..31.
EXTENDS Integers, Sequences, FiniteSets, TLC

----------------------------------------------------------------------------
\* uint32 arithmetic on bit sets

Word == 0..31

Bits(n) == {i \in 0..30 : (n \div (2 ^ i)) % 2 = 1}

Shl(S, n) == {b + n : b \in S} \cap Word

Shr(S, n) == {b - n : b \in S} \cap Word

----------------------------------------------------------------------------
\* Constants of permission_windows.go

ownerWrite == Bits(\b010000000)
groupWrite == Bits(\b000010000)
worldWrite == Bits(\b000000010)

ownerRead == Bits(\b100000000)
groupRead == Bits(\b000100000)
worldRead == Bits(\b000000100)

ownerAll == Bits(\b111000000)
groupAll == Bits(\b000111000)
worldAll == Bits(\b000000111)

genericOwner == 23
genericGroup == 26
genericWorld == 29

deleteOwner == 9
deleteGroup == 12
deleteWorld == 15

listDirOwner == 7
listDirGroup == 10
listDirWorld_intoDelete == deleteWorld - 1
listDirWorld == 13

traverseOwner == 2
traverseGroup == 5
traverseWorld == 8

writeEAOwner == 2
writeEAGroup == 1
writeEAWorld == 4

deleteChildOwner == 1
deleteChildGroup == 4
deleteChildWorld == 7

\* io/fs: ModePerm = 0o777, ModeDir = 1 << 31.
ModePerm == Bits(\o777)
ModeDir == {31}

\* fs.FileMode.Perm
Perm(fm) == fm \cap ModePerm

\* golang.org/x/sys/windows access rights named by the tests and comments.
GENERIC_READ == {31}
GENERIC_WRITE == {30}
GENERIC_EXECUTE == {29}
DELETE == {16}

\* Windows SDK values of the directory rights the shift constants are named
\* after: FILE_LIST_DIRECTORY 0x0001, FILE_WRITE_EA 0x0010, FILE_TRAVERSE
\* 0x0020, FILE_DELETE_CHILD 0x0040.
FILE_LIST_DIRECTORY == {0}
FILE_WRITE_EA == {4}
FILE_TRAVERSE == {5}
FILE_DELETE_CHILD == {6}

----------------------------------------------------------------------------
\* permToMasks and masksToPerm

permToMasks_ownerWriteInGroup(fm, isDir) ==
    LET mask == Perm(fm) IN
    [owner |-> Shl(mask \cap ownerAll, genericOwner) \cup Shl(mask \cap ownerWrite, deleteOwner),
     group |-> Shl(mask \cap groupAll, genericGroup) \cup Shl(mask \cap ownerWrite, deleteOwner),
     world |-> Shl(mask \cap worldAll, genericWorld) \cup Shl(mask \cap worldWrite, deleteWorld)]

permToMasks(fm, isDir) ==
    LET mask == Perm(fm)
        owner0 == Shl(mask \cap ownerAll, genericOwner) \cup Shl(mask \cap ownerWrite, deleteOwner)
        group0 == Shl(mask \cap groupAll, genericGroup) \cup Shl(mask \cap groupWrite, deleteGroup)
        world0 == Shl(mask \cap worldAll, genericWorld) \cup Shl(mask \cap worldWrite, deleteWorld)
    IN  IF isDir
        THEN [owner |-> owner0 \cup Shl(mask \cap ownerRead, listDirOwner)
                               \cup Shl(mask \cap ownerRead, traverseOwner)
                               \cup Shl(mask \cap ownerWrite, deleteChildOwner)
                               \cup Shr(mask \cap ownerWrite, writeEAOwner),
              group |-> group0 \cup Shl(mask \cap groupRead, listDirGroup)
                               \cup Shl(mask \cap groupRead, traverseGroup)
                               \cup Shl(mask \cap groupWrite, deleteChildGroup)
                               \cup Shl(mask \cap groupWrite, writeEAGroup),
              world |-> world0 \cup Shl(mask \cap worldRead, listDirWorld)
                               \cup Shl(mask \cap worldRead, traverseWorld)
                               \cup Shl(mask \cap worldWrite, deleteChildWorld)
                               \cup Shl(mask \cap worldWrite, writeEAWorld)]
        ELSE [owner |-> owner0, group |-> group0, world |-> world0]

masksToPerm(u, g, o) ==
    (Shr(u, genericOwner) \cap ownerAll) \cup (Shr(u, deleteOwner) \cap ownerWrite)
    \cup (Shr(g, genericGroup) \cap groupAll) \cup (Shr(g, deleteGroup) \cap groupWrite)
    \cup (Shr(o, genericWorld) \cap worldAll) \cup (Shr(o, deleteWorld) \cap worldWrite)

----------------------------------------------------------------------------
\* The file system and the security subsystem the operations act on

\* Security identifiers.  windows.CreateWellKnownSid maps the three well-known
\* SID types chmod names to the fixed SIDs below; CurrentUser and
\* CurrentGroup are the user and primary group of the process token, which
\* own every object the process creates.
CreatorOwnerSid == "S-1-3-0"
CreatorGroupSid == "S-1-3-1"
WorldSid == "S-1-1-0"
CurrentUser == "S-1-5-21-1001"
CurrentGroup == "S-1-5-21-513"
SystemSid == "S-1-5-18"

WellKnownTypes == {"WinCreatorOwnerSid", "WinCreatorGroupSid", "WinWorldSid"}

CreateWellKnownSid(stype) ==
    CASE stype = "WinCreatorOwnerSid" -> CreatorOwnerSid
      [] stype = "WinCreatorGroupSid" -> CreatorGroupSid
      [] stype = "WinWorldSid" -> WorldSid

\* Path names.  A name is absolute or relative to the working directory Cwd;
\* the operating system resolves a relative name against Cwd, and
\* filepath.Abs does the same.
Cwd == <<"a">>
Root == <<>>

Abs(comps) == [abs |-> TRUE, comps |-> comps]
Rel(comps) == [abs |-> FALSE, comps |-> comps]

Resolve(name) == IF name.abs THEN name.comps ELSE Cwd \o name.comps

\* fs.FileInfo.Name: the base name of the path given to os.Stat.
BaseName(name) == Rel(<<name.comps[Len(name.comps)]>>)

Parent(path) == SubSeq(path, 1, Len(path) - 1)

\* The names the operations are called with and the paths they can touch.
Names == {Rel(<<"b">>), Abs(<<"b", "b">>)}
Paths == {Root, <<"a">>, <<"b">>, <<"a", "b">>, <<"b", "b">>}

\* The permissions the operations are called with: every triad zero, the
\* group triad zero, the world triad zero, no triad zero.
Perms == {Bits(\o000), Bits(\o604), Bits(\o640), Bits(\o755)}

\* FILE_ALL_ACCESS = 0x1F01FF
FILE_ALL_ACCESS == (0..8) \cup (16..20)

Ace(sid, mask, inheritance) ==
    [sid |-> sid, mask |-> mask, mode |-> "GRANT_ACCESS", inheritance |-> inheritance]

\* The DACL a new object receives from its parent and the creator's token
\* when it is created without security attributes (os.Mkdir, os.OpenFile).
DefaultDacl ==
    <<Ace(SystemSid, FILE_ALL_ACCESS, "INHERITED"),
      Ace(CurrentUser, FILE_ALL_ACCESS, "INHERITED")>>

NoPerm == {9}

NoObj == [kind |-> "none", owner |-> "", group |-> "", dacl |-> <<>>,
          protected |-> FALSE, applied |-> NoPerm]

\* applied is history: the permission of the Chmod call that wrote the DACL
\* the object has, NoPerm when no call of Chmod wrote it.
NewObj(kind) == [kind |-> kind, owner |-> CurrentUser, group |-> CurrentGroup,
                 dacl |-> DefaultDacl, protected |-> FALSE, applied |-> NoPerm]

Exists(f, path) == f[path].kind # "none"
IsDirAt(f, path) == f[path].kind = "dir"

\* errors.  msg is the outermost stage label, is the sentinel errors.Is
\* finds in the chain, joined the well-known SID types whose errors
\* errors.Join combined, deferred the label of an error attached by
\* errors.WithDeferred.
Nil == [msg |-> "", is |-> "none", joined |-> <<>>, deferred |-> ""]

Err(msg, is) == [msg |-> msg, is |-> is, joined |-> <<>>, deferred |-> ""]

\* fmt.Errorf("<label>: %w", err)
Wrap(label, e) == [e EXCEPT !.msg = label]

\* errors.WithDeferred of golibs: the returned error stays the head of the
\* chain and the deferred one is attached to it.
WithDeferred(returned, deferred) ==
    IF deferred = Nil THEN returned
    ELSE IF returned = Nil THEN deferred
    ELSE [returned EXCEPT !.deferred = deferred.msg]

----------------------------------------------------------------------------
\* stat: the mode recovered from the security descriptor

\* The loop of stat over the entries of the DACL: an entry of the owner SID
\* is OR-ed into the owner mask, else one of the group SID into the group
\* mask, else its mask replaces the other mask.
NoRoles == [owner |-> {}, group |-> {}, other |-> {}]

RECURSIVE classify_otherOr(_, _, _, _, _)
classify_otherOr(dacl, i, owner, group, acc) ==
    IF i > Len(dacl) THEN acc
    ELSE LET ace == dacl[i] IN
         classify_otherOr(dacl, i + 1, owner, group,
             IF ace.sid = owner THEN [acc EXCEPT !.owner = @ \cup ace.mask]
             ELSE IF ace.sid = group THEN [acc EXCEPT !.group = @ \cup ace.mask]
             ELSE [acc EXCEPT !.other = @ \cup ace.mask])

RECURSIVE classify(_, _, _, _, _)
classify(dacl, i, owner, group, acc) ==
    IF i > Len(dacl) THEN acc
    ELSE LET ace == dacl[i] IN
         classify(dacl, i + 1, owner, group,
             IF ace.sid = owner THEN [acc EXCEPT !.owner = @ \cup ace.mask]
             ELSE IF ace.sid = group THEN [acc EXCEPT !.group = @ \cup ace.mask]
             ELSE [acc EXCEPT !.other = ace.mask])

\* os.Stat(name).Mode() on Windows: the directory bit and fixed permission
\* bits (0o777 for a directory, 0o666 for a file).
NativeMode(obj) ==
    IF obj.kind = "dir" THEN ModeDir \cup Bits(\o777) ELSE Bits(\o666)

\* mode := masksToPerm(ownerMask, groupMask, otherMask) |
\*         (fi.Mode().Perm() & ^fs.ModePerm)
\* sdObj is the object whose security descriptor was read, fiObj the one
\* os.Stat described.
statMode(sdObj, fiObj) ==
    LET m == classify(sdObj.dacl, 1, sdObj.owner, sdObj.group, NoRoles)
    IN  masksToPerm(m.owner, m.group, m.other) \cup (Perm(NativeMode(fiObj)) \ ModePerm)

\* stat(name) on file system f; secFails is the outcome of the security
\* subsystem, which may refuse GetNamedSecurityInfo.  os.Stat is given name,
\* GetNamedSecurityInfo is given fi.Name().  sd is history: the path whose
\* security descriptor was asked for, Root when none was.
stat(f, name, secFails) ==
    LET p == Resolve(name)
        q == Resolve(BaseName(name))
    IN  IF ~Exists(f, p)
        THEN [err |-> Err("os.Stat", "notexist"), mode |-> {}, sd |-> Root]
        ELSE IF ~Exists(f, q)
             THEN [err |-> Err("getting security descriptor", "notexist"), mode |-> {},
                   sd |-> q]
        ELSE IF secFails
             THEN [err |-> Err("getting security descriptor", "other"), mode |-> {},
                   sd |-> q]
        ELSE [err |-> Nil, mode |-> statMode(f[q], f[p]), sd |-> q]

----------------------------------------------------------------------------
\* chmod: the access-control entries built from a permission

sidMasks(m) ==
    <<[Key |-> "WinCreatorOwnerSid", Value |-> m.owner],
      [Key |-> "WinCreatorGroupSid", Value |-> m.group],
      [Key |-> "WinWorldSid", Value |-> m.world]>>

NonZeroTypes(m) ==
    {sidMasks(m)[i].Key : i \in {j \in 1..3 : sidMasks(m)[j].Value # {}}}

\* windows.EXPLICIT_ACCESS{AccessPermissions, GRANT_ACCESS, NO_INHERITANCE,
\* Trustee} and the entry windows.ACLFromEntries makes of it.
ExplicitAccess(stype, mask) == Ace(CreateWellKnownSid(stype), mask, "NO_INHERITANCE")

NoEntries == [entries |-> <<>>, errs |-> <<>>, attempted |-> <<>>]

RECURSIVE chmodEntries_failFast(_, _, _, _)
chmodEntries_failFast(sms, i, failing, acc) ==
    IF i > Len(sms) THEN acc
    ELSE IF sms[i].Value = {} THEN chmodEntries_failFast(sms, i + 1, failing, acc)
    ELSE IF sms[i].Key \in failing
         THEN [acc EXCEPT !.errs = Append(@, sms[i].Key),
                          !.attempted = Append(@, sms[i].Key)]
    ELSE chmodEntries_failFast(sms, i + 1, failing,
             [acc EXCEPT !.entries = Append(@, ExplicitAccess(sms[i].Key, sms[i].Value)),
                         !.attempted = Append(@, sms[i].Key)])

RECURSIVE chmodEntries_zeroEntries(_, _, _, _)
chmodEntries_zeroEntries(sms, i, failing, acc) ==
    IF i > Len(sms) THEN acc
    ELSE IF sms[i].Key \in failing
         THEN chmodEntries_zeroEntries(sms, i + 1, failing,
                  [acc EXCEPT !.errs = Append(@, sms[i].Key),
                              !.attempted = Append(@, sms[i].Key)])
    ELSE chmodEntries_zeroEntries(sms, i + 1, failing,
             [acc EXCEPT !.entries = Append(@, ExplicitAccess(sms[i].Key, sms[i].Value)),
                         !.attempted = Append(@, sms[i].Key)])

\* The loop of chmod over sidMasks, from index i on; failing is the set of
\* SID types for which newWellKnownTrustee returns an error.  attempted
\* records the types newWellKnownTrustee was called for.
RECURSIVE chmodEntries(_, _, _, _)
chmodEntries(sms, i, failing, acc) ==
    IF i > Len(sms) THEN acc
    ELSE IF sms[i].Value = {} THEN chmodEntries(sms, i + 1, failing, acc)
    ELSE IF sms[i].Key \in failing
         THEN chmodEntries(sms, i + 1, failing,
                  [acc EXCEPT !.errs = Append(@, sms[i].Key),
                              !.attempted = Append(@, sms[i].Key)])
    ELSE chmodEntries(sms, i + 1, failing,
             [acc EXCEPT !.entries = Append(@, ExplicitAccess(sms[i].Key, sms[i].Value)),
                         !.attempted = Append(@, sms[i].Key)])

\* errors.Join(errs...): nil when there is no error.
Join(errs) == IF errs = <<>> THEN Nil
              ELSE [msg |-> "join", is |-> "other", joined |-> errs, deferred |-> ""]

----------------------------------------------------------------------------
\* State

NumProcs == 2
Procs == 1..NumProcs

VARIABLES
    fs,      \* the object at every path: kind, owner, group, DACL
    active,  \* the goroutines that call the package
    pc,      \* per goroutine: the step its call is at
    fr,      \* per goroutine: the arguments, locals and result of its call
    mpc,     \* translation run: its step
    fm,      \* translation run: the file mode given to permToMasks
    isDir,   \* translation run: the directory flag given to permToMasks
    masks,   \* translation run: the masks permToMasks returned
    perm,    \* translation run: the mode masksToPerm returned
    apc,     \* classification run: its step
    secDesc, \* classification run: owner, group and DACL of the descriptor
    roles,   \* classification run: ownerMask, groupMask and otherMask
    rperm    \* classification run: the mode masksToPerm returned

vars == <<fs, active, pc, fr, mpc, fm, isDir, masks, perm, apc, secDesc, roles, rperm>>
fsVars == <<fs, active, pc, fr>>
maskVars == <<mpc, fm, isDir, masks, perm>>
aceVars == <<apc, secDesc, roles, rperm>>

NoMasks == [owner |-> {}, group |-> {}, world |-> {}]

\* The frame of a call.  cname is the name chmod is called with.  file is the
\* *os.File of writeFile: "nil", "open" or "closed".  History, read by no
\* step: before is the object the name resolved to when the call started,
\* created the paths the call created, attempted the SID types chmod asked a
\* trustee for, failing the SID types for which that failed, aclFailed whether
\* windows.ACLFromEntries failed, setDone whether SetNamedSecurityInfo
\* succeeded, removed whether os.Remove did and sdPath the path whose
\* security descriptor Stat asked for.
NoFrame ==
    [op |-> "none", name |-> Rel(<<"b">>), perm |-> {}, err |-> Nil,
     cname |-> Rel(<<"b">>), acl |-> <<>>, attempted |-> <<>>, setDone |-> FALSE,
     created |-> {}, removed |-> FALSE, deferChmod |-> FALSE, file |-> "nil",
     oerr |-> Nil, mode |-> {}, before |-> NoObj, failing |-> {}, aclFailed |-> FALSE,
     sdPath |-> Root]

Fs0 == [p \in Paths |-> IF p \in {Root, Cwd} THEN NewObj("dir") ELSE NoObj]

InitFs ==
    /\ fs = Fs0
    /\ pc = [i \in Procs |-> "idle"]
    /\ fr = [i \in Procs |-> NoFrame]

InitMasksIdle ==
    /\ mpc = "off"
    /\ fm = {}
    /\ isDir = FALSE
    /\ masks = NoMasks
    /\ perm = {}

NoSecDesc == [owner |-> CurrentUser, group |-> CurrentGroup, dacl |-> <<>>]

InitAcesIdle ==
    /\ apc = "off"
    /\ secDesc = NoSecDesc
    /\ roles = NoRoles
    /\ rperm = {}

\* One goroutine calls the package, one call after the other.
Init ==
    /\ InitFs
    /\ active = {1}
    /\ InitMasksIdle
    /\ InitAcesIdle

----------------------------------------------------------------------------
\* Returning from the functions

\* writeFile after openFile returned (file, e).
AfterOpenFile(self, frame, e) ==
    IF e # Nil
    THEN /\ fr' = [fr EXCEPT ![self] = [frame EXCEPT !.err = Wrap("opening file", e)]]
         /\ pc' = [pc EXCEPT ![self] = "done"]
    ELSE /\ fr' = [fr EXCEPT ![self] = frame]
         /\ pc' = [pc EXCEPT ![self] = "write"]

\* mkdir returned e to Mkdir or to mkdirAll, which turns os.ErrExist into nil.
AfterMkdir(self, frame, e) ==
    /\ fr' = [fr EXCEPT ![self] =
                 [frame EXCEPT !.err = IF frame.op = "MkdirAll" /\ e.is = "exist"
                                       THEN Nil ELSE e]]
    /\ pc' = [pc EXCEPT ![self] = "done"]

\* chmod returned e: to Chmod, to mkdir (whose deferred function removes the
\* directory when e is an error), or to the deferred function of openFile.
AfterChmod(self, frame, e) ==
    CASE frame.op = "Chmod" ->
            /\ fr' = [fr EXCEPT ![self] = [frame EXCEPT !.err = e]]
            /\ pc' = [pc EXCEPT ![self] = "done"]
      [] frame.op \in {"Mkdir", "MkdirAll"} ->
            IF e = Nil THEN AfterMkdir(self, frame, Nil)
            ELSE /\ fr' = [fr EXCEPT ![self] = [frame EXCEPT !.err = e]]
                 /\ pc' = [pc EXCEPT ![self] = "mkdir_remove"]
      [] frame.op = "WriteFile" ->
            AfterOpenFile(self, frame, WithDeferred(frame.oerr, e))

----------------------------------------------------------------------------
\* The operations, one step per system call that reads or writes the file
\* system

Idle(self) == self \in active /\ pc[self] \in {"idle", "done"}

NewFrame(op, name, p) ==
    [NoFrame EXCEPT !.op = op, !.name = name, !.perm = p, !.cname = name,
                    !.before = fs[Resolve(name)]]

\* chmod up to windows.ACLFromEntries: os.Stat, permToMasks, the loop over
\* sidMasks, errors.Join.  failing is what the security subsystem does: the
\* SID types, among those with a non-zero mask, whose SID it fails to create.
ChmodBody(self, frame) ==
    LET p == Resolve(frame.cname) IN
    /\ UNCHANGED fs
    /\ IF ~Exists(fs, p)
       THEN AfterChmod(self, frame, Err("getting file info", "notexist"))
       ELSE LET m == permToMasks(frame.perm, IsDirAt(fs, p)) IN
            \E failing \in SUBSET NonZeroTypes(m) :
              LET r == chmodEntries(sidMasks(m), 1, failing, NoEntries)
                  fr2 == [frame EXCEPT !.attempted = r.attempted, !.failing = failing]
              IN  IF Join(r.errs) # Nil
                  THEN AfterChmod(self, fr2,
                           Wrap("creating access control entries", Join(r.errs)))
                  ELSE \E aclFails \in BOOLEAN :
                         IF aclFails
                         THEN AfterChmod(self, [fr2 EXCEPT !.aclFailed = TRUE],
                                  Err("creating access control list", "other"))
                         ELSE /\ fr' = [fr EXCEPT ![self] = [fr2 EXCEPT !.acl = r.entries]]
                              /\ pc' = [pc EXCEPT ![self] = "chmod_set"]

Chmod(self) ==
    /\ Idle(self)
    /\ \E name \in Names, p \in Perms : ChmodBody(self, NewFrame("Chmod", name, p))
    /\ UNCHANGED <<active, maskVars, aceVars>>

\* chmod called by mkdir or by the deferred function of openFile.
ChmodStep(self) ==
    /\ self \in active
    /\ pc[self] = "chmod"
    /\ ChmodBody(self, fr[self])
    /\ UNCHANGED <<active, maskVars, aceVars>>

\* windows.SetNamedSecurityInfo(name, SE_FILE_OBJECT, DACL | PROTECTED_DACL,
\* nil, nil, acl, nil): the DACL is replaced and marked protected.
SetSecurity(self) ==
    /\ self \in active
    /\ pc[self] = "chmod_set"
    /\ LET frame == fr[self]
           p == Resolve(frame.cname)
       IN  \E fails \in BOOLEAN :
             IF ~Exists(fs, p)
             THEN /\ UNCHANGED fs
                  /\ AfterChmod(self, frame, Err("setting security descriptor", "notexist"))
             ELSE IF fails
             THEN /\ UNCHANGED fs
                  /\ AfterChmod(self, frame, Err("setting security descriptor", "other"))
             ELSE /\ fs' = [fs EXCEPT ![p].dacl = frame.acl, ![p].protected = TRUE,
                                      ![p].applied = IF frame.op = "Chmod"
                                                     THEN frame.perm ELSE NoPerm]
                  /\ AfterChmod(self, [frame EXCEPT !.setDone = TRUE], Nil)
    /\ UNCHANGED <<active, maskVars, aceVars>>

\* mkdir up to os.Mkdir: filepath.Abs, os.Mkdir.
MkdirBody(self, frame) ==
    LET abs == Abs(Resolve(frame.name))
        p == Resolve(abs)
    IN  IF Exists(fs, p)
        THEN /\ UNCHANGED fs
             /\ AfterMkdir(self, frame, Err("creating directory", "exist"))
        ELSE IF ~IsDirAt(fs, Parent(p))
        THEN /\ UNCHANGED fs
             /\ AfterMkdir(self, frame, Err("creating directory", "notexist"))
        ELSE /\ fs' = [fs EXCEPT ![p] = NewObj("dir")]
             /\ fr' = [fr EXCEPT ![self] =
                          [frame EXCEPT !.cname = abs, !.created = @ \cup {p}]]
             /\ pc' = [pc EXCEPT ![self] = "chmod"]

Mkdir(self) ==
    /\ Idle(self)
    /\ \E name \in Names, p \in Perms : MkdirBody(self, NewFrame("Mkdir", name, p))
    /\ UNCHANGED <<active, maskVars, aceVars>>

\* mkdir called by mkdirAll.
MkdirStep(self) ==
    /\ self \in active
    /\ pc[self] = "mkdir"
    /\ MkdirBody(self, fr[self])
    /\ UNCHANGED <<active, maskVars, aceVars>>

Remove_skipped(self) ==
    /\ self \in active
    /\ pc[self] = "mkdir_remove"
    /\ AfterMkdir(self, fr[self], fr[self].err)
    /\ UNCHANGED <<fs, active, maskVars, aceVars>>

\* The deferred function of mkdir after chmod returned an error:
\* err = errors.WithDeferred(err, os.Remove(name)).
Remove(self) ==
    /\ self \in active
    /\ pc[self] = "mkdir_remove"
    /\ LET frame == fr[self]
           p == Resolve(frame.cname)
           removable == /\ Exists(fs, p)
                        /\ \A q \in Paths : Len(q) > 0 /\ Parent(q) = p => ~Exists(fs, q)
       IN  \E fails \in BOOLEAN :
             IF removable /\ ~fails
             THEN /\ fs' = [fs EXCEPT ![p] = NoObj]
                  /\ AfterMkdir(self, [frame EXCEPT !.removed = TRUE],
                                WithDeferred(frame.err, Nil))
             ELSE /\ UNCHANGED fs
                  /\ AfterMkdir(self, frame,
                                WithDeferred(frame.err, Err("remove", "other")))
    /\ UNCHANGED <<active, maskVars, aceVars>>

Prefixes(path) == {SubSeq(path, 1, k) : k \in 0..Len(path)}

\* mkdirAll up to os.MkdirAll(parent, perm), which creates every missing
\* directory of parent and fails when a component is a file.  The names
\* drawn have a directory part.
MkdirAll(self) ==
    /\ Idle(self)
    /\ \E name \in {n \in Names : n.abs}, p \in Perms :
         LET frame == NewFrame("MkdirAll", name, p)
             parent == Parent(Resolve(name))
             missing == {q \in Prefixes(parent) : ~Exists(fs, q)}
         IN  IF \E q \in Prefixes(parent) : fs[q].kind = "file"
             THEN /\ UNCHANGED fs
                  /\ fr' = [fr EXCEPT ![self] =
                               [frame EXCEPT !.err = Err("creating parent directories", "other")]]
                  /\ pc' = [pc EXCEPT ![self] = "done"]
             ELSE /\ fs' = [q \in Paths |-> IF q \in missing THEN NewObj("dir") ELSE fs[q]]
                  /\ fr' = [fr EXCEPT ![self] = [frame EXCEPT !.created = missing]]
                  /\ pc' = [pc EXCEPT ![self] = "mkdir"]
    /\ UNCHANGED <<active, maskVars, aceVars>>

\* writeFile up to the stat of openFile (flag has os.O_CREATE): a stat error
\* that is os.ErrNotExist defers chmod, any other error is returned.
WriteFile(self) ==
    /\ Idle(self)
    /\ UNCHANGED fs
    /\ \E name \in Names, p \in Perms, secFails \in BOOLEAN :
         LET frame == NewFrame("WriteFile", name, p)
             r == stat(fs, name, secFails)
         IN  IF r.err # Nil /\ r.err.is # "notexist"
             THEN AfterOpenFile(self, frame, Wrap("getting file info", r.err))
             ELSE /\ fr' = [fr EXCEPT ![self] =
                               [frame EXCEPT !.deferChmod = (r.err # Nil)]]
                  /\ pc' = [pc EXCEPT ![self] = "open"]
    /\ UNCHANGED <<active, maskVars, aceVars>>

\* os.OpenFile(name, O_CREATE|O_WRONLY|O_TRUNC, perm) in openFile: a missing
\* file is created without security attributes.  The deferred chmod runs
\* next when it was registered.
Open(self) ==
    /\ self \in active
    /\ pc[self] = "open"
    /\ LET frame == fr[self]
           p == Resolve(frame.name)
           oerr == IF IsDirAt(fs, p) THEN Err("open", "other")
                   ELSE IF Exists(fs, p) \/ IsDirAt(fs, Parent(p)) THEN Nil
                   ELSE Err("open", "notexist")
           creates == oerr = Nil /\ ~Exists(fs, p)
           fr2 == [frame EXCEPT !.oerr = oerr,
                                !.file = IF oerr = Nil THEN "open" ELSE "nil",
                                !.created = IF creates THEN {p} ELSE {}]
       IN  /\ fs' = IF creates THEN [fs EXCEPT ![p] = NewObj("file")] ELSE fs
           /\ IF frame.deferChmod
              THEN /\ fr' = [fr EXCEPT ![self] = fr2]
                   /\ pc' = [pc EXCEPT ![self] = "chmod"]
              ELSE AfterOpenFile(self, fr2, oerr)
    /\ UNCHANGED <<active, maskVars, aceVars>>

\* file.Write(data) in writeFile.
Write(self) ==
    /\ self \in active
    /\ pc[self] = "write"
    /\ \E fails \in BOOLEAN :
         fr' = [fr EXCEPT ![self].err =
                   IF fails THEN Err("writing data", "other") ELSE Nil]
    /\ pc' = [pc EXCEPT ![self] = "close"]
    /\ UNCHANGED <<fs, active, maskVars, aceVars>>

\* The deferred function of writeFile:
\* err = errors.WithDeferred(err, file.Close()).
Close(self) ==
    /\ self \in active
    /\ pc[self] = "close"
    /\ \E fails \in BOOLEAN :
         fr' = [fr EXCEPT ![self].file = "closed",
                          ![self].err = WithDeferred(@,
                              IF fails THEN Err("close", "other") ELSE Nil)]
    /\ pc' = [pc EXCEPT ![self] = "done"]
    /\ UNCHANGED <<fs, active, maskVars, aceVars>>

Stat(self) ==
    /\ Idle(self)
    /\ \E name \in Names, secFails \in BOOLEAN :
         LET r == stat(fs, name, secFails)
         IN  fr' = [fr EXCEPT ![self] =
                       [NewFrame("Stat", name, {}) EXCEPT !.err = r.err, !.mode = r.mode,
                                                          !.sdPath = r.sd]]
    /\ pc' = [pc EXCEPT ![self] = "done"]
    /\ UNCHANGED <<fs, active, maskVars, aceVars>>

Next ==
    \E self \in Procs :
        \/ Chmod(self)
        \/ ChmodStep(self)
        \/ SetSecurity(self)
        \/ Mkdir(self)
        \/ MkdirStep(self)
        \/ Remove(self)
        \/ MkdirAll(self)
        \/ WriteFile(self)
        \/ Open(self)
        \/ Write(self)
        \/ Close(self)
        \/ Stat(self)

Spec == Init /\ [][Next]_vars

----------------------------------------------------------------------------
\* The translation on its own: permToMasks and masksToPerm applied to every
\* permission value and both directory flags

MaxPerm == 511

InitMasks ==
    /\ InitFs
    /\ active = {}
    /\ mpc = "start"
    /\ fm \in {Bits(n) : n \in 0..MaxPerm}
    /\ isDir \in BOOLEAN
    /\ masks = NoMasks
    /\ perm = {}
    /\ InitAcesIdle

PermToMasks ==
    /\ mpc = "start"
    /\ masks' = permToMasks(fm, isDir)
    /\ mpc' = "masks"
    /\ UNCHANGED <<fm, isDir, perm, fsVars, aceVars>>

MasksToPerm ==
    /\ mpc = "masks"
    /\ perm' = masksToPerm(masks.owner, masks.group, masks.world)
    /\ mpc' = "perm"
    /\ UNCHANGED <<fm, isDir, masks, fsVars, aceVars>>

NextMasks == PermToMasks \/ MasksToPerm

SpecMasks == InitMasks /\ [][NextMasks]_vars

----------------------------------------------------------------------------
\* Concurrent calls: every goroutine calls MkdirAll once, all with the same
\* path and permission, on a path that does not exist; the system calls of
\* the calls interleave

InitConc ==
    /\ InitFs
    /\ active = Procs
    /\ InitMasksIdle
    /\ InitAcesIdle

\* A goroutine that has not called yet calls MkdirAll with the arguments of
\* the calls already made.
ConcMkdirAll(self) ==
    /\ pc[self] = "idle"
    /\ MkdirAll(self)
    /\ \A other \in Procs :
         fr[other].op = "MkdirAll"
         => fr'[self].name = fr[other].name /\ fr'[self].perm = fr[other].perm

NextConc ==
    \E self \in Procs :
        \/ ConcMkdirAll(self)
        \/ MkdirStep(self)
        \/ ChmodStep(self)
        \/ SetSecurity(self)
        \/ Remove(self)

SpecConc == InitConc /\ [][NextConc]_vars

----------------------------------------------------------------------------
\* The reader's loop on its own: the entries of every security descriptor of
\* up to MaxAces entries classified, and the mode recovered from the masks

MaxAces == 3

\* The SIDs and masks of the descriptors: a descriptor of another tool may
\* hold any entries, and its owner may also be its primary group.
AceSids == {CurrentUser, CurrentGroup, WorldSid}
AceMasks == {GENERIC_READ, GENERIC_WRITE \cup DELETE, FILE_ALL_ACCESS}
AcePool == {Ace(sid, mask, "NO_INHERITANCE") : sid \in AceSids, mask \in AceMasks}
Dacls == UNION {[1..n -> AcePool] : n \in 0..MaxAces}

InitAces ==
    /\ InitFs
    /\ active = {}
    /\ InitMasksIdle
    /\ apc = "start"
    /\ \E group \in {CurrentGroup, CurrentUser}, dacl \in Dacls :
         secDesc = [owner |-> CurrentUser, group |-> group, dacl |-> dacl]
    /\ roles = NoRoles
    /\ rperm = {}

\* The loop over the entries of the DACL.
ClassifyEntries ==
    /\ apc = "start"
    /\ roles' = classify(secDesc.dacl, 1, secDesc.owner, secDesc.group, NoRoles)
    /\ apc' = "classified"
    /\ UNCHANGED <<secDesc, rperm, fsVars, maskVars>>

\* masksToPerm(ownerMask, groupMask, otherMask)
RecoverPerm ==
    /\ apc = "classified"
    /\ rperm' = masksToPerm(roles.owner, roles.group, roles.other)
    /\ apc' = "perm"
    /\ UNCHANGED <<secDesc, roles, fsVars, maskVars>>

NextAces == ClassifyEntries \/ RecoverPerm

SpecAces == InitAces /\ [][NextAces]_vars

----------------------------------------------------------------------------
\* Properties of the translation (SpecMasks)

\* The triad of a file mode at bit offset k, as a subset of {0, 1, 2}:
\* 2 read, 1 write, 0 execute.
Triad(mode, k) == {b - k : b \in mode \cap (k..(k + 2))}

OwnerTriad(mode) == Triad(mode, 6)
GroupTriad(mode) == Triad(mode, 3)
WorldTriad(mode) == Triad(mode, 0)

GenericRights == GENERIC_READ \cup GENERIC_WRITE \cup GENERIC_EXECUTE \cup DELETE

\* The generic rights of a triad: read gives GENERIC_READ, write gives
\* GENERIC_WRITE|DELETE, execute gives GENERIC_EXECUTE.
RightsOfTriad(t) ==
    (IF 2 \in t THEN GENERIC_READ ELSE {})
    \cup (IF 1 \in t THEN GENERIC_WRITE \cup DELETE ELSE {})
    \cup (IF 0 \in t THEN GENERIC_EXECUTE ELSE {})

DirRightsOf(t) ==
    (IF 2 \in t THEN FILE_LIST_DIRECTORY \cup FILE_TRAVERSE ELSE {})
    \cup (IF 1 \in t THEN FILE_DELETE_CHILD \cup FILE_WRITE_EA ELSE {})

DirRights == FILE_LIST_DIRECTORY \cup FILE_TRAVERSE \cup FILE_DELETE_CHILD \cup FILE_WRITE_EA

\* C10: for a directory each trustee's mask carries FILE_LIST_DIRECTORY
\* (0x0001) and FILE_TRAVERSE (0x0020) exactly when its read bit is set and
\* FILE_DELETE_CHILD (0x0040) and FILE_WRITE_EA (0x0010) exactly when its
\* write bit is set; for a file none of the four is set.
C10_DirectoryRights ==
    mpc = "masks" =>
        /\ masks.owner \cap DirRights = IF isDir THEN DirRightsOf(OwnerTriad(fm)) ELSE {}
        /\ masks.group \cap DirRights = IF isDir THEN DirRightsOf(GroupTriad(fm)) ELSE {}
        /\ masks.world \cap DirRights = IF isDir THEN DirRightsOf(WorldTriad(fm)) ELSE {}

----------------------------------------------------------------------------
\* Properties of the operations (Spec)

\* The access-control list derived from a permission: one GRANT,
\* no-inheritance entry per trustee with a non-zero mask, in the order
\* creator owner, creator group, everyone.
DerivedDacl(p, d) ==
    LET m == permToMasks(p, d) IN
    (IF m.owner # {} THEN <<Ace(CreatorOwnerSid, m.owner, "NO_INHERITANCE")>> ELSE <<>>)
    \o (IF m.group # {} THEN <<Ace(CreatorGroupSid, m.group, "NO_INHERITANCE")>> ELSE <<>>)
    \o (IF m.world # {} THEN <<Ace(WorldSid, m.world, "NO_INHERITANCE")>> ELSE <<>>)

Returned(self, op) == pc[self] = "done" /\ fr[self].op = op

Target(self) == fs[Resolve(fr[self].name)]

\* C2: after a successful Chmod(path, p), on a file or a directory, a
\* following Stat(path) succeeds and the permission bits of its mode are p
\* (unless the security subsystem itself refuses the query).
C2_ChmodThenStat ==
    \A self \in Procs :
        (/\ Returned(self, "Stat")
         /\ Target(self).applied # NoPerm
         /\ fr[self].err.is # "other")
        => /\ fr[self].err = Nil
           /\ Perm(fr[self].mode) = Target(self).applied

\* C3: the mode Stat returns is the permission recovered from the DACL OR-ed
\* with the non-permission bits of the native mode, so Stat on a directory
\* has the directory bit set.
C3_TypeBitsOverlaid ==
    \A self \in Procs :
        (Returned(self, "Stat") /\ fr[self].err = Nil)
        => fr[self].mode \ ModePerm = NativeMode(Target(self)) \ ModePerm

\* The SID types with a non-zero mask, in the order chmod visits them.
NonZeroSeq(p, d) ==
    LET sms == sidMasks(permToMasks(p, d))
        F(i) == IF sms[i].Value # {} THEN <<sms[i].Key>> ELSE <<>>
    IN  F(1) \o F(2) \o F(3)

SeqRange(s) == {s[i] : i \in 1..Len(s)}

\* C4: when trustee resolution fails for a trustee with a non-zero mask, or
\* the ACL cannot be built, Chmod returns an error and leaves the security
\* descriptor as it was, SetNamedSecurityInfo is not executed, resolution
\* was attempted for every trustee with a non-zero mask and the one error
\* returned holds the failure of every trustee that failed.
C4_ChmodAllOrNothing ==
    \A self \in Procs :
        (Returned(self, "Chmod") /\ (fr[self].failing # {} \/ fr[self].aclFailed))
        => /\ fr[self].err # Nil
           /\ ~fr[self].setDone
           /\ Target(self) = fr[self].before
           /\ fr[self].attempted = NonZeroSeq(fr[self].perm, IsDirAt(fs, Resolve(fr[self].name)))
           /\ fr[self].failing # {} =>
                /\ SeqRange(fr[self].err.joined) = fr[self].failing
                /\ Len(fr[self].err.joined) = Cardinality(fr[self].failing)

\* C4 witness: Chmod returned after the first and the last trustee both
\* failed to resolve.
C4_Witness ==
    \E self \in Procs :
        /\ Returned(self, "Chmod")
        /\ fr[self].failing = {"WinCreatorOwnerSid", "WinWorldSid"}
        /\ fr[self].attempted = <<"WinCreatorOwnerSid", "WinCreatorGroupSid", "WinWorldSid">>
        /\ fr[self].err.joined = <<"WinCreatorOwnerSid", "WinWorldSid">>
        /\ Target(self).kind # "none"

\* C5: when Mkdir created the directory and applying the permission failed,
\* the directory is removed again and an error returned, with the failure of
\* the removal attached when the removal failed and the directory stayed;
\* when the native creation failed nothing is removed and the object that
\* was there is unchanged.
C5_MkdirCleanup ==
    \A self \in Procs :
        Returned(self, "Mkdir") =>
            /\ (fr[self].created # {} /\ ~fr[self].setDone) =>
                 /\ fr[self].err # Nil
                 /\ IF Target(self).kind = "none"
                    THEN fr[self].removed /\ fr[self].err.deferred = ""
                    ELSE ~fr[self].removed /\ fr[self].err.deferred = "remove"
            /\ fr[self].created = {} =>
                 /\ fr[self].err # Nil
                 /\ ~fr[self].removed
                 /\ Target(self) = fr[self].before

\* C5 witness: Mkdir created the directory, chmod failed and the directory
\* was removed.
C5_Witness ==
    \E self \in Procs :
        /\ Returned(self, "Mkdir")
        /\ fr[self].created = {Resolve(fr[self].name)}
        /\ fr[self].err # Nil
        /\ fr[self].removed
        /\ Target(self).kind = "none"

\* C6: a file that WriteFile created never exists with an access-control
\* list other than the one derived from the requested permission, in any
\* state during or after the call.
C6_WriteFileAtomic ==
    \A self \in Procs :
        fr[self].op = "WriteFile" =>
            \A p \in fr[self].created :
                Exists(fs, p) =>
                    /\ fs[p].dacl = DerivedDacl(fr[self].perm, FALSE)
                    /\ fs[p].protected

\* C7: after a successful MkdirAll(path, p) every directory the call
\* created, the leaf and each missing ancestor, carries the access-control
\* list derived from p.
C7_MkdirAllPermissions ==
    \A self \in Procs :
        (Returned(self, "MkdirAll") /\ fr[self].err = Nil)
        => \A q \in fr[self].created :
               /\ fs[q].kind = "dir"
               /\ fs[q].dacl = DerivedDacl(fr[self].perm, TRUE)

\* C8: after a successful Chmod(path, p), whatever the DACL was before, the
\* DACL is protected and is exactly the GRANT, no-inheritance entries of the
\* trustees with a non-zero triad, in the order owner, group, everyone, with
\* the masks of permToMasks: no entry for a zero mask, at most three
\* entries, none for p = 0.
C8_ChmodReplacesDacl ==
    \A self \in Procs :
        (Returned(self, "Chmod") /\ fr[self].err = Nil)
        => /\ Target(self).protected
           /\ Target(self).dacl = DerivedDacl(fr[self].perm, Target(self).kind = "dir")
           /\ Len(Target(self).dacl) <= 3
           /\ \A i \in 1..Len(Target(self).dacl) : Target(self).dacl[i].mask # {}
           /\ fr[self].perm = {} => Target(self).dacl = <<>>

\* C8 witness: Chmod succeeded with a permission whose world triad is zero
\* on an object that carried the three entries of an earlier chmod.
C8_Witness ==
    \E self \in Procs :
        /\ Returned(self, "Chmod")
        /\ fr[self].err = Nil
        /\ fr[self].perm = Bits(\o640)
        /\ Len(fr[self].before.dacl) = 3
        /\ fr[self].before.applied = Bits(\o755)
        /\ Len(Target(self).dacl) = 2

\* The access-control list of a new directory whose owner and group entries
\* name the current user and the current user's primary group, with the
\* masks chmod computes for a directory.
CurrentUserDacl(p) ==
    LET m == permToMasks(p, TRUE) IN
    (IF m.owner # {} THEN <<Ace(CurrentUser, m.owner, "NO_INHERITANCE")>> ELSE <<>>)
    \o (IF m.group # {} THEN <<Ace(CurrentGroup, m.group, "NO_INHERITANCE")>> ELSE <<>>)
    \o (IF m.world # {} THEN <<Ace(WorldSid, m.world, "NO_INHERITANCE")>> ELSE <<>>)

\* C11: the entries Mkdir places on the directory it created name the
\* current user and the current user's primary group as owner and group
\* trustees, not the creator-owner and creator-group placeholders of Chmod,
\* with the masks Chmod computes for that permission on a directory.
C11_MkdirTrustees ==
    \A self \in Procs :
        (Returned(self, "Mkdir") /\ fr[self].err = Nil)
        => Target(self).dacl = CurrentUserDacl(fr[self].perm)

\* C13: Stat(path) reads owner, group and DACL of the object path names, the
\* one os.Stat described, also for a path outside the working directory and
\* one whose base name exists in the working directory (unless the security
\* subsystem itself refuses the query).
C13_StatReadsNamedObject ==
    \A self \in Procs :
        (/\ Returned(self, "Stat")
         /\ Exists(fs, Resolve(fr[self].name))
         /\ fr[self].err.is # "other")
        => /\ fr[self].err = Nil
           /\ fr[self].sdPath = Resolve(fr[self].name)

\* C15: every file WriteFile opened is closed when WriteFile returns, with
\* or without an error.
C15_WriteFileClosesHandle ==
    \A self \in Procs :
        Returned(self, "WriteFile") => fr[self].file # "open"

\* The role of an entry of the descriptor under classification.
RoleOf(ace) ==
    IF ace.sid = secDesc.owner THEN "owner"
    ELSE IF ace.sid = secDesc.group THEN "group"
    ELSE "other"

EntriesOf(role) == {i \in DOMAIN secDesc.dacl : RoleOf(secDesc.dacl[i]) = role}

OrOfRole(role) == UNION {secDesc.dacl[i].mask : i \in EntriesOf(role)}

LastOfRole(role) ==
    IF EntriesOf(role) = {} THEN {}
    ELSE secDesc.dacl[CHOOSE i \in EntriesOf(role) : \A j \in EntriesOf(role) : j <= i].mask

\* C12: every entry of the DACL counts for one role, owner if its SID is the
\* owner's, else group if it is the group's, else other; ownerMask and
\* groupMask are the OR of the masks of their entries, otherMask is the mask
\* of the last other entry or zero, and these three go to masksToPerm.
C12_EntryRoles ==
    /\ apc \in {"classified", "perm"}
       => /\ roles.owner = OrOfRole("owner")
          /\ roles.group = OrOfRole("group")
          /\ roles.other = LastOfRole("other")
    /\ apc = "perm"
       => rperm = masksToPerm(OrOfRole("owner"), OrOfRole("group"), LastOfRole("other"))

\* An entry matches owner and group at once, and two other entries differ so
\* that the last one's mask is not the OR of both.
C12_Witness ==
    /\ apc = "perm"
    /\ secDesc.owner = secDesc.group
    /\ EntriesOf("owner") # {}
    /\ roles.group = {}
    /\ Cardinality(EntriesOf("other")) >= 2
    /\ roles.other # OrOfRole("other")
    /\ rperm # masksToPerm(roles.owner, roles.group, OrOfRole("other"))

\* C14: with concurrent MkdirAll(path, p) calls on a path that did not exist,
\* whenever a call has returned nil the directory at path exists and carries
\* the access-control list derived from p, whatever the other calls are
\* doing.
C14_ConcurrentMkdirAll ==
    \A self \in Procs :
        (Returned(self, "MkdirAll") /\ fr[self].err = Nil)
        => /\ Target(self).kind = "dir"
           /\ Target(self).dacl = DerivedDacl(fr[self].perm, TRUE)

====
